---- MODULE Spec2Model ----
(***************************************************************************)
(* A model of go-stash (package stash): an in-memory key/value store       *)
(* backed by one JSON file on disk.                                        *)
(*                                                                         *)
(* src/stash/stash.go holds two revisions of the package one after the     *)
(* other (lines 1-198 and lines 200-383).  They differ in Read only: the   *)
(* first revision answers a missing key with NoSuchKeyError, the second    *)
(* hands the missing entry to json.Unmarshal.  Both Reads are modelled     *)
(* (Read and Read_jd); Save, Flush, readFromDisk and NewStash are the      *)
(* same code in both revisions and are modelled once.                      *)
(***************************************************************************)
EXTENDS Integers, FiniteSets, Sequences, TLC

\* ------------------------------------------------------------------ bounds
\* the goroutines that call into one Stash
NumThreads == 3

Threads == 1..NumThreads

\* the goroutine of a sequential caller (the tests' goroutine): the first
MainThread == CHOOSE t \in Threads : \A u \in Threads : t <= u

\* ------------------------------------------------------------- constants
version1 == 1
\* the unsupported version the tests force into a Stash
BadVersion == 42

Keys == {"KEY1", "KEY2"}

\* --------------------------------------------------------------- Go values
\* A Go value is described by its type, the content of its exported
\* (JSON-representable) part and the content of its unexported part.  The
\* zero content is "".
GoTypes == {"string", "struct"}

ZeroOf(typ) == [typ |-> typ, exp |-> "", unexp |-> ""]

\* the values handed to Save: a string, a struct that has an exported and a
\* non-zero unexported field, and a value whose MarshalJSON fails (stash_test.go: Unmarshallable)
Values ==
  { [typ |-> "string",         exp |-> "Hello",    unexp |-> ""],
    [typ |-> "struct",         exp |-> "checking", unexp |-> "secret"],
    [typ |-> "Unmarshallable", exp |-> "42",       unexp |-> ""] }

\* ------------------------------------------------------------ JSON bytes
\* A json.RawMessage is described by the shape of the JSON text and its
\* content.  NoEntry stands for "the map has no entry under this key"
\* (data[key] then yields the nil RawMessage).
NoEntry == [shape |-> "none", text |-> ""]

ShapeOf(typ) == IF typ = "string" THEN "string" ELSE "object"

\* ---------------------------------------------------------------- errors
NoError == [kind |-> "nil", badVersion |-> 0, s |-> ""]

UnknownVersionError(v) == [kind |-> "UnknownVersionError", badVersion |-> v, s |-> ""]

NoSuchKeyError(str) == [kind |-> "NoSuchKeyError", badVersion |-> 0, s |-> str]

\* an error of another package, told apart by the place that produced it
OtherError(kind) == [kind |-> kind, badVersion |-> 0, s |-> ""]

\* json.Marshal(value) as Save uses it: unexported fields are not saved,
\* a failing MarshalJSON makes the whole call fail
Marshal(value) ==
  IF value.typ = "Unmarshallable"
    THEN [err |-> OtherError("json.Marshal"), bytes |-> NoEntry]
    ELSE [err |-> NoError,
          bytes |-> [shape |-> ShapeOf(value.typ), text |-> value.exp]]

\* json.Unmarshal(item, ptr), ptr pointing at a variable holding `target`:
\* no bytes at all (nil RawMessage) and bytes of another shape are errors
\* and leave the variable alone; otherwise the exported part is filled in
\* and the unexported part keeps what the variable held.
Unmarshal(item, target) ==
  IF item = NoEntry
    THEN [err |-> OtherError("json.Unmarshal"), out |-> target]
  ELSE IF item.shape # ShapeOf(target.typ)
    THEN [err |-> OtherError("json.Unmarshal"), out |-> target]
  ELSE [err |-> NoError,
        out |-> [typ |-> target.typ, exp |-> item.text, unexp |-> target.unexp]]

\* ------------------------------------------------------------- v1Data
\* v1Data is map[string]json.RawMessage, here a function on Keys that
\* yields NoEntry for the keys the map does not hold.
EmptyV1Data == [k \in Keys |-> NoEntry]

KeysOf(data) == {k \in Keys : data[k] # NoEntry}

\* ------------------------------------------------------------ the file
\* The file at the path: whether it exists, whether its mode is 0000,
\* whether its bytes decode as a container, the container's Version, and
\* whether container.Data decodes as v1Data (and then as what).
NoFile ==
  [exists |-> FALSE, mode0000 |-> FALSE, isContainer |-> FALSE,
   Version |-> 0, isV1Data |-> FALSE, Data |-> EmptyV1Data]

\* container with the data left out
container_noData(version, jsonData) ==
  [isContainer |-> TRUE, Version |-> version, isV1Data |-> TRUE, Data |-> EmptyV1Data]

\* the bytes Flush hands to ioutil.WriteFile
container(version, jsonData) ==
  [isContainer |-> TRUE, Version |-> version, isV1Data |-> TRUE, Data |-> jsonData]

\* bytes that are no container ("foobarbaz"), and a version-1 container
\* whose Data is no map of raw messages
ForeignContents ==
  { [isContainer |-> FALSE, Version |-> 0, isV1Data |-> FALSE, Data |-> EmptyV1Data],
    [isContainer |-> TRUE, Version |-> version1, isV1Data |-> FALSE, Data |-> EmptyV1Data] }

\* a write cut short leaves bytes that are no container
Truncated ==
  [isContainer |-> FALSE, Version |-> 0, isV1Data |-> FALSE, Data |-> EmptyV1Data]

FileWith(d, c) ==
  [exists |-> TRUE, mode0000 |-> d.mode0000, isContainer |-> c.isContainer,
   Version |-> c.Version, isV1Data |-> c.isV1Data, Data |-> c.Data]


\* outcomes of ioutil.WriteFile: written in full, refused when the file is
\* opened (nothing changes), or cut short after the file was truncated
WriteOutcomes == {"written", "refused", "cut"}

\* ioutil.WriteFile(s.file, bytes, 0600) on the file d.  A file of mode
\* 0000 cannot be opened for writing.  Yields the error and the file.
WriteFile(d, bytes, outcome) ==
  IF (d.exists /\ d.mode0000) \/ outcome = "refused"
    THEN [err |-> OtherError("ioutil.WriteFile"), file |-> d]
  ELSE IF outcome = "cut"
    THEN [err |-> OtherError("ioutil.WriteFile"), file |-> FileWith(d, Truncated)]
  ELSE [err |-> NoError, file |-> FileWith(d, bytes)]

\* ------------------------------------------------------------- the Stash
\* the Stash struct the callers hold (file is the one path of the model,
\* the mutex is the variable mutex below).  hasData tells whether the data
\* field holds a v1Data or is still the nil interface.
NoStash ==
  [version |-> 0, autoFlush |-> FALSE, hasData |-> FALSE, data |-> EmptyV1Data]

\* what the last NewStash handed back: whether it was called at all,
\* whether the *Stash it returned is non-nil, and the error it returned
NotCalled == [called |-> FALSE, ptr |-> FALSE, err |-> NoError]

\* readFromDisk that decodes the payload before it looks at the version
readFromDisk_decodeFirst(s, d) ==
  IF d.mode0000
    THEN [err |-> OtherError("ioutil.ReadFile"), stash |-> s]
  ELSE IF ~d.isContainer
    THEN [err |-> OtherError("failed to unmarshal outer data structure"), stash |-> s]
  ELSE IF ~d.isV1Data
    THEN [err |-> OtherError("failed to unwrap v1 data"),
          stash |-> [s EXCEPT !.version = d.Version]]
  ELSE [err |-> IF d.Version = version1 THEN NoError ELSE UnknownVersionError(d.Version),
        stash |-> [s EXCEPT !.version = d.Version, !.hasData = TRUE, !.data = d.Data]]

\* readFromDisk that drops the error of the outer json.Unmarshal
readFromDisk_dropErr(s, d) ==
  IF d.mode0000
    THEN [err |-> OtherError("ioutil.ReadFile"), stash |-> s]
  ELSE IF d.isContainer /\ d.Version = version1
    THEN IF ~d.isV1Data
           THEN [err |-> OtherError("failed to unwrap v1 data"),
                 stash |-> [s EXCEPT !.version = d.Version]]
           ELSE [err |-> NoError,
                 stash |-> [s EXCEPT !.version = d.Version,
                                     !.hasData = TRUE, !.data = d.Data]]
  ELSE [err |-> UnknownVersionError(d.Version),
        stash |-> [s EXCEPT !.version = d.Version]]

\* readFromDisk on a Stash s, the file being d: the error and the Stash
\* as readFromDisk leaves it
readFromDisk(s, d) ==
  IF d.mode0000
    THEN [err |-> OtherError("ioutil.ReadFile"), stash |-> s]
  ELSE IF ~d.isContainer
    THEN [err |-> OtherError("failed to unmarshal outer data structure"), stash |-> s]
  ELSE IF d.Version = version1
    THEN IF ~d.isV1Data
           THEN [err |-> OtherError("failed to unwrap v1 data"),
                 stash |-> [s EXCEPT !.version = d.Version]]
           ELSE [err |-> NoError,
                 stash |-> [s EXCEPT !.version = d.Version,
                                     !.hasData = TRUE, !.data = d.Data]]
  ELSE [err |-> UnknownVersionError(d.Version),
        stash |-> [s EXCEPT !.version = d.Version]]

\* ------------------------------------------------------------- goroutines
\* A goroutine is idle (its record then holds its last call on the Stash
\* and what the call returned) or inside a call at the statement pc names.
IdleThread ==
  [pc |-> "idle", op |-> "none", key |-> "", val |-> ZeroOf("string"),
   out |-> ZeroOf("string"), err |-> NoError, jsonData |-> EmptyV1Data]

VARIABLES disk, stash, ret, mutex, th

vars == <<disk, stash, ret, mutex, th>>

Init ==
  /\ disk = NoFile
  /\ stash = NoStash
  /\ ret = NotCalled
  /\ mutex = 0
  /\ th = [t \in Threads |-> IdleThread]

\* the Stash the callers go on to use: NewStash returned it without error
Usable == ret.called /\ ret.err = NoError

\* no goroutine is inside a call
Quiescent == \A t \in Threads : th[t].pc = "idle"

\* ---------------------------------------------------------------- NewStash
\* NewStash that takes the lock of the Stash it makes before it loads
NewStash_locked(t, autoFlush) ==
  /\ Quiescent
  /\ stash' = [NoStash EXCEPT !.autoFlush = autoFlush]
  /\ ret' = NotCalled
  /\ mutex' = t
  /\ th' = [u \in Threads |->
              IF u = t THEN [IdleThread EXCEPT !.op = "NewStash", !.pc = "NewStash_Stat"]
                       ELSE IdleThread]
  /\ UNCHANGED disk

\* result := Stash{file: filename, mutex: &sync.Mutex{}, autoFlush: autoFlush}.
\* The callers drop the Stash they held before.
NewStash(t, autoFlush) ==
  /\ Quiescent
  /\ stash' = [NoStash EXCEPT !.autoFlush = autoFlush]
  /\ ret' = NotCalled
  /\ mutex' = 0
  /\ th' = [u \in Threads |->
              IF u = t THEN [IdleThread EXCEPT !.op = "NewStash", !.pc = "NewStash_Stat"]
                       ELSE IdleThread]
  /\ UNCHANGED disk

\* NewStash that drops the error of its first Flush
NewStash_Stat_dropErr(t, outcome) ==
  /\ th[t].pc = "NewStash_Stat"
  /\ IF ~disk.exists
       THEN LET fresh == [stash EXCEPT !.version = version1, !.hasData = TRUE,
                                       !.data = EmptyV1Data]
                w == WriteFile(disk, container(fresh.version, fresh.data), outcome)
            IN /\ stash' = fresh
               /\ IF fresh.autoFlush
                    THEN /\ disk' = w.file
                         /\ ret' = [called |-> TRUE, ptr |-> TRUE, err |-> NoError]
                    ELSE /\ outcome = "written"
                         /\ disk' = disk
                         /\ ret' = [called |-> TRUE, ptr |-> TRUE, err |-> NoError]
       ELSE LET r == readFromDisk(stash, disk)
            IN /\ outcome = "written"
               /\ stash' = r.stash
               /\ disk' = disk
               /\ ret' = [called |-> TRUE, ptr |-> TRUE, err |-> r.err]
  /\ th' = [th EXCEPT ![t] = IdleThread]
  /\ UNCHANGED mutex

\* NewStash that, with autoFlush, flushes what it has after loading too
NewStash_Stat_flushLoaded(t, outcome) ==
  /\ th[t].pc = "NewStash_Stat"
  /\ IF ~disk.exists
       THEN LET fresh == [stash EXCEPT !.version = version1, !.hasData = TRUE,
                                       !.data = EmptyV1Data]
                w == WriteFile(disk, container(fresh.version, fresh.data), outcome)
            IN /\ stash' = fresh
               /\ IF fresh.autoFlush
                    THEN /\ disk' = w.file
                         /\ ret' = [called |-> TRUE, ptr |-> TRUE, err |-> w.err]
                    ELSE /\ outcome = "written"
                         /\ disk' = disk
                         /\ ret' = [called |-> TRUE, ptr |-> TRUE, err |-> NoError]
       ELSE LET r == readFromDisk(stash, disk)
                w == WriteFile(disk, container(r.stash.version, r.stash.data), outcome)
            IN /\ outcome = "written"
               /\ stash' = r.stash
               /\ disk' = IF stash.autoFlush THEN w.file ELSE disk
               /\ ret' = [called |-> TRUE, ptr |-> TRUE, err |-> r.err]
  /\ th' = [th EXCEPT ![t] = IdleThread]
  /\ UNCHANGED mutex

\* os.Stat(filename) and the branch it selects, up to the return; outcome
\* is what the WriteFile of the first Flush does
NewStash_Stat(t, outcome) ==
  /\ th[t].pc = "NewStash_Stat"
  /\ IF ~disk.exists
       THEN \* new database
            LET fresh == [stash EXCEPT !.version = version1, !.hasData = TRUE,
                                       !.data = EmptyV1Data]
                w == WriteFile(disk, container(fresh.version, fresh.data), outcome)
            IN /\ stash' = fresh
               /\ IF fresh.autoFlush
                    THEN /\ disk' = w.file
                         /\ ret' = [called |-> TRUE, ptr |-> TRUE, err |-> w.err]
                    ELSE /\ outcome = "written"
                         /\ disk' = disk
                         /\ ret' = [called |-> TRUE, ptr |-> TRUE, err |-> NoError]
       ELSE \* existing database
            LET r == readFromDisk(stash, disk)
            IN /\ outcome = "written"
               /\ stash' = r.stash
               /\ disk' = disk
               /\ ret' = [called |-> TRUE, ptr |-> TRUE, err |-> r.err]
  /\ th' = [th EXCEPT ![t] = IdleThread]
  /\ UNCHANGED mutex

\* ------------------------------------------------------------------- Save
\* Save without the version switch
Save_switch_noSwitch(t, key, value) ==
  /\ th[t].pc = "idle"
  /\ Usable
  /\ LET call == [IdleThread EXCEPT !.op = "Save", !.key = key,
                                    !.val = value, !.out = value]
         m == Marshal(value)
     IN th' = [th EXCEPT ![t] =
          IF m.err # NoError
            THEN [call EXCEPT !.err = OtherError("error marshalling value")]
            ELSE [call EXCEPT !.pc = "Save_Lock"]]
  /\ UNCHANGED <<disk, stash, ret, mutex>>

\* Save that goes on after json.Marshal failed
Save_switch_ignoreErr(t, key, value) ==
  /\ th[t].pc = "idle"
  /\ Usable
  /\ LET call == [IdleThread EXCEPT !.op = "Save", !.key = key,
                                    !.val = value, !.out = value]
     IN th' = [th EXCEPT ![t] =
          IF stash.version = version1
            THEN [call EXCEPT !.pc = "Save_Lock"]
            ELSE [call EXCEPT !.err = UnknownVersionError(stash.version)]]
  /\ UNCHANGED <<disk, stash, ret, mutex>>

\* the version switch and json.Marshal(value), before the lock
Save_switch(t, key, value) ==
  /\ th[t].pc = "idle"
  /\ Usable
  /\ LET call == [IdleThread EXCEPT !.op = "Save", !.key = key,
                                    !.val = value, !.out = value]
         m == Marshal(value)
     IN th' = [th EXCEPT ![t] =
          IF stash.version = version1
            THEN IF m.err # NoError
                   THEN [call EXCEPT !.err = OtherError("error marshalling value")]
                   ELSE [call EXCEPT !.pc = "Save_Lock"]
            ELSE [call EXCEPT !.err = UnknownVersionError(stash.version)]]
  /\ UNCHANGED <<disk, stash, ret, mutex>>

\* a Lock that does not wait for the mutex to be free
Save_Lock_noWait(t) ==
  /\ th[t].pc = "Save_Lock"
  /\ mutex' = t
  /\ th' = [th EXCEPT ![t].pc = "Save_assign"]
  /\ UNCHANGED <<disk, stash, ret>>

\* s.mutex.Lock()
Save_Lock(t) ==
  /\ th[t].pc = "Save_Lock"
  /\ mutex = 0
  /\ mutex' = t
  /\ th' = [th EXCEPT ![t].pc = "Save_assign"]
  /\ UNCHANGED <<disk, stash, ret>>

\* an assignment that replaces the map instead of one entry
Save_assign_replace(t) ==
  /\ th[t].pc = "Save_assign"
  /\ stash' = [stash EXCEPT !.data =
       [EmptyV1Data EXCEPT ![th[t].key] = Marshal(th[t].val).bytes]]
  /\ th' = [th EXCEPT ![t].pc = "Save_Unlock"]
  /\ UNCHANGED <<disk, ret, mutex>>

\* an assignment that keeps the value a key already has
Save_assign_keepOld(t) ==
  /\ th[t].pc = "Save_assign"
  /\ stash' = IF stash.data[th[t].key] # NoEntry
                THEN stash
                ELSE [stash EXCEPT !.data[th[t].key] = Marshal(th[t].val).bytes]
  /\ th' = [th EXCEPT ![t].pc = "Save_Unlock"]
  /\ UNCHANGED <<disk, ret, mutex>>

\* s.data.(v1Data)[key] = marshalledData
Save_assign(t) ==
  /\ th[t].pc = "Save_assign"
  /\ stash' = [stash EXCEPT !.data[th[t].key] = Marshal(th[t].val).bytes]
  /\ th' = [th EXCEPT ![t].pc = "Save_Unlock"]
  /\ UNCHANGED <<disk, ret, mutex>>

\* Save that flushes whatever autoFlush says
Save_Unlock_flushAlways(t) ==
  /\ th[t].pc = "Save_Unlock"
  /\ mutex' = 0
  /\ th' = [th EXCEPT ![t].pc = "Flush_Lock"]
  /\ UNCHANGED <<disk, stash, ret>>

\* Save that never flushes
Save_Unlock_flushNever(t) ==
  /\ th[t].pc = "Save_Unlock"
  /\ mutex' = 0
  /\ th' = [th EXCEPT ![t].pc = "idle"]
  /\ UNCHANGED <<disk, stash, ret>>

\* Save that goes into Flush with the mutex still locked
Save_Unlock_holdLock(t) ==
  /\ th[t].pc = "Save_Unlock"
  /\ mutex' = IF stash.autoFlush THEN mutex ELSE 0
  /\ th' = [th EXCEPT ![t].pc = IF stash.autoFlush THEN "Flush_Lock" ELSE "idle"]
  /\ UNCHANGED <<disk, stash, ret>>

\* s.mutex.Unlock(), then either return nil or go on into s.Flush()
Save_Unlock(t) ==
  /\ th[t].pc = "Save_Unlock"
  /\ mutex' = 0
  /\ th' = [th EXCEPT ![t].pc = IF stash.autoFlush THEN "Flush_Lock" ELSE "idle"]
  /\ UNCHANGED <<disk, stash, ret>>

\* ------------------------------------------------------------------ Flush
\* Flush with the version switch that Save and Read have
Flush_call_gated(t) ==
  /\ th[t].pc = "idle"
  /\ Usable
  /\ th' = [th EXCEPT ![t] =
       IF stash.version = version1
         THEN [IdleThread EXCEPT !.op = "Flush", !.pc = "Flush_Lock"]
         ELSE [IdleThread EXCEPT !.op = "Flush",
                                 !.err = UnknownVersionError(stash.version)]]
  /\ UNCHANGED <<disk, stash, ret, mutex>>

\* a caller's own call of Flush
Flush_call(t) ==
  /\ th[t].pc = "idle"
  /\ Usable
  /\ th' = [th EXCEPT ![t] = [IdleThread EXCEPT !.op = "Flush", !.pc = "Flush_Lock"]]
  /\ UNCHANGED <<disk, stash, ret, mutex>>

\* a Flush that does not wait for the mutex to be free
Flush_Lock_noWait(t) ==
  /\ th[t].pc = "Flush_Lock"
  /\ mutex' = t
  /\ th' = [th EXCEPT ![t].pc = "Flush_Marshal"]
  /\ UNCHANGED <<disk, stash, ret>>

\* s.mutex.Lock() of Flush
Flush_Lock(t) ==
  /\ th[t].pc = "Flush_Lock"
  /\ mutex = 0
  /\ mutex' = t
  /\ th' = [th EXCEPT ![t].pc = "Flush_Marshal"]
  /\ UNCHANGED <<disk, stash, ret>>

\* jsonData, err := json.Marshal(s.data): a map of raw messages always
\* marshals
Flush_Marshal(t) ==
  /\ th[t].pc = "Flush_Marshal"
  /\ th' = [th EXCEPT ![t].pc = "Flush_WriteFile", ![t].jsonData = stash.data]
  /\ UNCHANGED <<disk, stash, ret, mutex>>

\* container{Version: s.version, Data: jsonData} written to the file
Flush_WriteFile(t, outcome) ==
  /\ th[t].pc = "Flush_WriteFile"
  /\ LET w == WriteFile(disk, container(stash.version, th[t].jsonData), outcome)
     IN /\ disk' = w.file
        /\ th' = [th EXCEPT ![t].pc = "Flush_Unlock", ![t].err = w.err,
                            ![t].jsonData = EmptyV1Data]
  /\ UNCHANGED <<stash, ret, mutex>>

\* Flush that returns nil whatever ioutil.WriteFile returned
Flush_Unlock_dropErr(t) ==
  /\ th[t].pc = "Flush_Unlock"
  /\ mutex' = 0
  /\ th' = [th EXCEPT ![t].pc = "idle", ![t].err = NoError]
  /\ UNCHANGED <<disk, stash, ret>>

\* the deferred s.mutex.Unlock() and the return
Flush_Unlock(t) ==
  /\ th[t].pc = "Flush_Unlock"
  /\ mutex' = 0
  /\ th' = [th EXCEPT ![t].pc = "idle"]
  /\ UNCHANGED <<disk, stash, ret>>

\* ------------------------------------------------------------------- Read
\* what the first revision's Read returns under the lock
Read(data, key, target) ==
  IF data[key] # NoEntry
    THEN Unmarshal(data[key], target)
    ELSE [err |-> NoSuchKeyError(""), out |-> target]

\* what the second revision's Read returns under the lock
Read_jd(data, key, target) == Unmarshal(data[key], target)

Revisions == {"Read", "Read_jd"}

\* Read as the revision rev has it
ReadRev(rev, data, key, target) ==
  IF rev = "Read" THEN Read(data, key, target) ELSE Read_jd(data, key, target)

\* the version switch of either Read; target is the variable ptr points at
Read_switch(t, key, target, rev) ==
  /\ th[t].pc = "idle"
  /\ Usable
  /\ LET call == [IdleThread EXCEPT !.op = rev, !.key = key,
                                    !.val = target, !.out = target]
     IN th' = [th EXCEPT ![t] =
          IF stash.version = version1
            THEN [call EXCEPT !.pc = "Read_Lock"]
            ELSE [call EXCEPT !.err = UnknownVersionError(stash.version)]]
  /\ UNCHANGED <<disk, stash, ret, mutex>>

Read_Lock(t) ==
  /\ th[t].pc = "Read_Lock"
  /\ mutex = 0
  /\ mutex' = t
  /\ th' = [th EXCEPT ![t].pc = "Read_lookup"]
  /\ UNCHANGED <<disk, stash, ret>>

\* a lookup that takes the entry out of the map
Read_lookup_pop(t) ==
  /\ th[t].pc = "Read_lookup"
  /\ LET r == ReadRev(th[t].op, stash.data, th[t].key, th[t].val)
     IN th' = [th EXCEPT ![t].pc = "Read_Unlock", ![t].err = r.err, ![t].out = r.out]
  /\ stash' = [stash EXCEPT !.data[th[t].key] = NoEntry]
  /\ UNCHANGED <<disk, ret, mutex>>

\* the lookup and json.Unmarshal(data, ptr)
Read_lookup(t) ==
  /\ th[t].pc = "Read_lookup"
  /\ LET r == ReadRev(th[t].op, stash.data, th[t].key, th[t].val)
     IN th' = [th EXCEPT ![t].pc = "Read_Unlock", ![t].err = r.err, ![t].out = r.out]
  /\ UNCHANGED <<disk, stash, ret, mutex>>

\* an Unlock that is skipped when Read returns an error
Read_Unlock_errKeepsLock(t) ==
  /\ th[t].pc = "Read_Unlock"
  /\ mutex' = IF th[t].err # NoError THEN mutex ELSE 0
  /\ th' = [th EXCEPT ![t].pc = "idle"]
  /\ UNCHANGED <<disk, stash, ret>>

\* the deferred s.mutex.Unlock() and the return of Read
Read_Unlock(t) ==
  /\ th[t].pc = "Read_Unlock"
  /\ mutex' = 0
  /\ th' = [th EXCEPT ![t].pc = "idle"]
  /\ UNCHANGED <<disk, stash, ret>>

\* ------------------------------------------------------- the surroundings
\* The tests' goroutine does these between two calls.
\* s.version = 42 (stash_test.go)
SetVersion(v) ==
  /\ Usable
  /\ Quiescent
  /\ stash.version # v
  /\ stash' = [stash EXCEPT !.version = v]
  /\ UNCHANGED <<disk, ret, mutex, th>>

\* ioutil.WriteFile(filename, []byte("foobarbaz"), 0600) before the file is
\* opened (stash_test.go)
WriteForeign(c) ==
  /\ Quiescent
  /\ ~disk.exists
  /\ disk' = FileWith(disk, c)
  /\ UNCHANGED <<stash, ret, mutex, th>>

\* os.Chmod(filename, 0000)
Chmod ==
  /\ Quiescent
  /\ disk.exists
  /\ ~disk.mode0000
  /\ disk' = [disk EXCEPT !.mode0000 = TRUE]
  /\ UNCHANGED <<stash, ret, mutex, th>>

\* ------------------------------------------------------ specifications
Targets == {ZeroOf(typ) : typ \in GoTypes}

\* one goroutine making one call after the other, opening the file anew
\* whenever it likes
NextSeq ==
  \/ \E autoFlush \in BOOLEAN : NewStash(MainThread, autoFlush)
  \/ \E outcome \in WriteOutcomes : NewStash_Stat(MainThread, outcome)
  \/ \E v \in {version1, BadVersion} : SetVersion(v)
  \/ \E c \in ForeignContents : WriteForeign(c)
  \/ Chmod
  \/ \E key \in Keys, value \in Values : Save_switch(MainThread, key, value)
  \/ Save_Lock(MainThread)
  \/ Save_assign(MainThread)
  \/ Save_Unlock(MainThread)
  \/ Flush_call(MainThread)
  \/ Flush_Lock(MainThread)
  \/ Flush_Marshal(MainThread)
  \/ \E outcome \in WriteOutcomes : Flush_WriteFile(MainThread, outcome)
  \/ Flush_Unlock(MainThread)
  \/ \E key \in Keys, target \in Targets, rev \in Revisions :
       Read_switch(MainThread, key, target, rev)
  \/ Read_Lock(MainThread)
  \/ Read_lookup(MainThread)
  \/ Read_Unlock(MainThread)

SpecSeq == Init /\ [][NextSeq]_vars

\* the goroutine has not made its call yet; the goroutines are numbered in
\* the order in which they begin their calls
Fresh(t) == th[t].op = "none" /\ (IF t = 1 THEN TRUE ELSE th[t - 1].op # "none")

\* the inputs of the concurrent calls: values that marshal, one variable to
\* read into, and a WriteFile that writes or is refused
Marshallable == {value \in Values : Marshal(value).err = NoError}

\* one Stash is opened, and then every goroutine makes one call on it
\* (go s.Save(key, value)), all of them concurrently
Next ==
  \/ \E autoFlush \in BOOLEAN :
       stash = NoStash /\ ret = NotCalled /\ NewStash(MainThread, autoFlush)
  \/ NewStash_Stat(MainThread, "written")
  \/ \E t \in Threads, key \in Keys, value \in Marshallable :
       Fresh(t) /\ Save_switch(t, key, value)
  \/ \E t \in Threads : Save_Lock(t)
  \/ \E t \in Threads : Save_assign(t)
  \/ \E t \in Threads : Save_Unlock(t)
  \/ \E t \in Threads : Fresh(t) /\ Flush_call(t)
  \/ \E t \in Threads : Flush_Lock(t)
  \/ \E t \in Threads : Flush_Marshal(t)
  \/ \E t \in Threads, outcome \in {"written", "refused"} : Flush_WriteFile(t, outcome)
  \/ \E t \in Threads : Flush_Unlock(t)
  \/ \E t \in Threads, key \in Keys :
       Fresh(t) /\ Read_switch(t, key, ZeroOf("string"), "Read")
  \/ \E t \in Threads : Read_Lock(t)
  \/ \E t \in Threads : Read_lookup(t)
  \/ \E t \in Threads : Read_Unlock(t)

Spec == Init /\ [][Next]_vars

\* the next statement of the call goroutine t is in; a Lock is the next
\* statement only while the mutex is free
Step(t) ==
  \/ NewStash_Stat(t, "written")
  \/ Save_Lock(t)
  \/ Save_assign(t)
  \/ Save_Unlock(t)
  \/ Flush_Lock(t)
  \/ Flush_Marshal(t)
  \/ \E outcome \in {"written", "refused"} : Flush_WriteFile(t, outcome)
  \/ Flush_Unlock(t)
  \/ Read_Lock(t)
  \/ Read_lookup(t)
  \/ Read_Unlock(t)

\* one key and one value of the test, for calls that differ only in how
\* they interleave
key1 == "KEY1"

s2 == [typ |-> "string", exp |-> "Hello", unexp |-> ""]

\* one Stash is opened, and then every goroutine makes one call on it with
\* key1 and s2, all of them concurrently
NextFair ==
  \/ \E autoFlush \in BOOLEAN :
       stash = NoStash /\ ret = NotCalled /\ NewStash(MainThread, autoFlush)
  \/ \E t \in Threads : Fresh(t) /\ Save_switch(t, key1, s2)
  \/ \E t \in Threads : Fresh(t) /\ Flush_call(t)
  \/ \E t \in Threads : Fresh(t) /\ Read_switch(t, key1, ZeroOf("string"), "Read")
  \/ \E t \in Threads : Step(t)

\* the concurrent calls under the Go scheduler: a goroutine that can take
\* its next statement is not left waiting for ever, and a goroutine that
\* waits in Lock gets the mutex once it stays free (sync.Mutex hands it
\* to a waiter)
FairSpec == Init /\ [][NextFair]_vars /\ \A t \in Threads : WF_vars(Step(t))

\* ------------------------------------------------------------ properties
\* what a later NewStash finds in the file d, and what Read then returns
Reopened(d) == readFromDisk(NoStash, d)

ReadBack(rev, d, key, target) == ReadRev(rev, Reopened(d).stash.data, key, target)

\* value without what JSON does not carry (unexported fields come back zero)
Exported(value) == [value EXCEPT !.unexp = ""]

\* goroutine t returns from a call of one of ops in this step
Returns(t, ops) ==
  /\ th[t].op \in ops
  /\ th[t].pc # "idle"
  /\ th'[t].op = th[t].op
  /\ th'[t].pc = "idle"

\* goroutine t begins a call of one of ops in this step
Begins(t, ops) ==
  /\ th[t].pc = "idle"
  /\ th'[t] # th[t]
  /\ th'[t].op \in ops

\* the values that entry k of data may be the serialization of
SavedAs(data, k) == {v \in Values : Marshal(v).err = NoError /\ data[k] = Marshal(v).bytes}

\* C1 as stated: when a Flush on a version-1 Stash returns nil, a NewStash
\* on the file succeeds, holds the entries the Stash holds, and Read of a
\* key into a fresh variable of the type of the value v saved under it
\* yields exactly v.
C1_RoundTripExact ==
  [][\A t \in Threads :
       (Returns(t, {"Flush"}) /\ th'[t].err = NoError /\ stash'.version = version1)
       => /\ Reopened(disk').err = NoError
          /\ Reopened(disk').stash.data = stash'.data
          /\ \A k \in Keys, rev \in Revisions : \A v \in SavedAs(stash'.data, k) :
               ReadBack(rev, disk', k, ZeroOf(v.typ)) = [err |-> NoError, out |-> v]]_vars

\* C1 as amended: the same, Read yielding v with its unexported fields zero
\* (v itself when v has none).
C1_RoundTrip ==
  [][\A t \in Threads :
       (Returns(t, {"Flush"}) /\ th'[t].err = NoError /\ stash'.version = version1)
       => /\ Reopened(disk').err = NoError
          /\ Reopened(disk').stash.data = stash'.data
          /\ \A k \in Keys, rev \in Revisions : \A v \in SavedAs(stash'.data, k) :
               ReadBack(rev, disk', k, ZeroOf(v.typ)) =
                 [err |-> NoError, out |-> Exported(v)]]_vars

\* a Flush returned nil with both keys saved, a struct among the values,
\* and the file holds them
C1_Witness ==
  \E t \in Threads :
    /\ th[t].pc = "idle" /\ th[t].op = "Flush" /\ th[t].err = NoError
    /\ stash.version = version1
    /\ KeysOf(stash.data) = Keys
    /\ \E k \in Keys : stash.data[k].shape = "object"
    /\ disk.exists /\ disk.Data = stash.data

\* C2: on a Stash without autoFlush no step of a Save changes the file and
\* only the WriteFile of a Flush call does; a WriteFile that succeeds
\* leaves a file that exists and holds the entries of the Stash.
C2_LazyPersistence ==
  [][/\ \A t \in Threads :
          (Usable /\ ~stash.autoFlush /\ th'[t] # th[t] /\ th'[t].op = "Save")
          => disk' = disk
     /\ (Usable /\ ~stash.autoFlush /\ disk' # disk)
          => \E t \in Threads : th[t].op = "Flush" /\ th[t].pc = "Flush_WriteFile"
     /\ \A t \in Threads :
          (th[t].pc = "Flush_WriteFile" /\ th'[t].pc = "Flush_Unlock"
             /\ th'[t].err = NoError)
          => /\ disk'.exists /\ disk'.isContainer /\ disk'.isV1Data
             /\ disk'.Version = stash.version
             /\ disk'.Data = stash.data]_vars

\* without autoFlush a Save has returned nil, the entry is in memory, and
\* there is still no file
C2_Witness ==
  \E t \in Threads :
    /\ Usable /\ ~stash.autoFlush
    /\ th[t].pc = "idle" /\ th[t].op = "Save" /\ th[t].err = NoError
    /\ stash.data[th[t].key] = Marshal(th[t].val).bytes
    /\ ~disk.exists

\* C3 as stated: when a Save on a Stash with autoFlush returns nil, a
\* NewStash on the file succeeds and Read of the key yields exactly the
\* value saved.
C3_EagerPersistenceExact ==
  [][\A t \in Threads :
       (Returns(t, {"Save"}) /\ stash.autoFlush /\ th'[t].err = NoError)
       => /\ Reopened(disk').err = NoError
          /\ \A rev \in Revisions :
               ReadBack(rev, disk', th[t].key, ZeroOf(th[t].val.typ)) =
                 [err |-> NoError, out |-> th[t].val]]_vars

\* C3 as amended: the same, Read yielding the value with its unexported
\* fields zero.
C3_EagerPersistence ==
  [][\A t \in Threads :
       (Returns(t, {"Save"}) /\ stash.autoFlush /\ th'[t].err = NoError)
       => /\ Reopened(disk').err = NoError
          /\ \A rev \in Revisions :
               ReadBack(rev, disk', th[t].key, ZeroOf(th[t].val.typ)) =
                 [err |-> NoError, out |-> Exported(th[t].val)]]_vars

\* with autoFlush a Save of a struct has returned nil
C3_Witness ==
  \E t \in Threads :
    /\ Usable /\ stash.autoFlush
    /\ th[t].pc = "idle" /\ th[t].op = "Save" /\ th[t].err = NoError
    /\ th[t].val.typ = "struct"
    /\ disk.exists /\ disk.Data[th[t].key] = Marshal(th[t].val).bytes

\* goroutine t has returned from a Save that no other goroutine's Save
\* shares the key with
SavedAlone(t) ==
  /\ th[t].op = "Save" /\ th[t].pc = "idle" /\ th[t].err = NoError
  /\ \A u \in Threads \ {t} : th[u].op = "Save" => th[u].key # th[t].key

\* C4: a WriteFile of a Flush that succeeds leaves a file that holds, for
\* every goroutine that has returned from its Save (the keys distinct),
\* the key with the value that Save passed.
C4_NoLostUpdate ==
  [][\A f \in Threads :
       (th[f].pc = "Flush_WriteFile" /\ th'[f].pc = "Flush_Unlock"
          /\ th'[f].err = NoError)
       => \A t \in Threads :
            SavedAlone(t)
            => /\ disk'.exists /\ disk'.isContainer /\ disk'.isV1Data
               /\ disk'.Data[th[t].key] = Marshal(th[t].val).bytes]_vars

\* two goroutines have saved under distinct keys, a third has flushed
\* after them, and the file holds both entries
C4_Witness ==
  \E t, u, f \in Threads :
    /\ t # u /\ SavedAlone(t) /\ SavedAlone(u)
    /\ ~stash.autoFlush
    /\ th[f].op = "Flush" /\ th[f].pc = "idle" /\ th[f].err = NoError
    /\ disk.Data[th[t].key] = Marshal(th[t].val).bytes
    /\ disk.Data[th[u].key] = Marshal(th[u].val).bytes

\* C5: a Read that got past the version switch and found no entry under
\* its key has returned a NoSuchKeyError and left the variable and the
\* entries alone.
C5_MissingKey ==
  \A t \in Threads :
    (th[t].pc = "idle" /\ th[t].op \in Revisions
       /\ th[t].err.kind # "UnknownVersionError"
       /\ stash.data[th[t].key] = NoEntry)
    => th[t].err.kind = "NoSuchKeyError" /\ th[t].out = th[t].val

\* C6: a NoSuchKeyError that a Read has returned carries the key that the
\* Read was called with.
C6_ErrorCarriesKey ==
  \A t \in Threads :
    (th[t].pc = "idle" /\ th[t].op \in Revisions /\ th[t].err.kind = "NoSuchKeyError")
    => th[t].err.s = th[t].key

\* C7: a Save or Read that begins while s.version is not version1 returns
\* UnknownVersionError{s.version} at once, changes neither the Stash nor
\* the file, and goes into no Flush.
C7_VersionGate ==
  [][\A t \in Threads :
       (Begins(t, {"Save"} \cup Revisions) /\ stash.version # version1)
       => /\ th'[t].pc = "idle"
          /\ th'[t].err = UnknownVersionError(stash.version)
          /\ th'[t].out = th'[t].val
          /\ stash' = stash
          /\ disk' = disk]_vars

\* with autoFlush a Save has returned UnknownVersionError{42}
C7_Witness ==
  \E t \in Threads :
    /\ Usable /\ stash.autoFlush /\ stash.version = BadVersion
    /\ th[t].pc = "idle" /\ th[t].op = "Save"
    /\ th[t].err = UnknownVersionError(BadVersion)

\* the file is there, can be read, and is a container of another version
DeclaresUnsupported(d) ==
  d.exists /\ ~d.mode0000 /\ d.isContainer /\ d.Version # version1

\* C8: NewStash on a file whose container has a Version other than
\* version1 returns UnknownVersionError{Version}, whatever autoFlush is,
\* and leaves the data field without the payload.
C8_UnsupportedVersionInFile ==
  [][\A t \in Threads :
       (th[t].pc = "NewStash_Stat" /\ th'[t].pc = "idle" /\ DeclaresUnsupported(disk))
       => /\ ret'.called
          /\ ret'.err = UnknownVersionError(disk.Version)
          /\ ~stash'.hasData
          /\ stash'.data = EmptyV1Data
          /\ disk' = disk]_vars

\* NewStash with autoFlush has returned UnknownVersionError{42} on a file
\* that holds entries
C8_Witness ==
  /\ ret.called /\ ret.err = UnknownVersionError(BadVersion)
  /\ stash.autoFlush
  /\ DeclaresUnsupported(disk) /\ KeysOf(disk.Data) # {}

\* C9: whenever NewStash has returned an error, the *Stash it returned is
\* nil.
C9_NoStashOnFailure ==
  (ret.called /\ ret.err # NoError) => ~ret.ptr

\* C10: NewStash on a file that cannot be read returns the error of
\* ioutil.ReadFile, on a file that is no container the error of the outer
\* json.Unmarshal, whatever autoFlush is; the file is left as it was.
C10_MalformedFile ==
  [][\A t \in Threads :
       (th[t].pc = "NewStash_Stat" /\ th'[t].pc = "idle" /\ disk.exists
          /\ (disk.mode0000 \/ ~disk.isContainer))
       => /\ ret'.called
          /\ ret'.err # NoError
          /\ ret'.err.kind = IF disk.mode0000
                               THEN "ioutil.ReadFile"
                               ELSE "failed to unmarshal outer data structure"
          /\ ~stash'.hasData
          /\ disk' = disk]_vars

\* NewStash with autoFlush has returned the error of the outer
\* json.Unmarshal on a file that is no container
C10_Witness ==
  /\ ret.called /\ ret.err.kind = "failed to unmarshal outer data structure"
  /\ stash.autoFlush
  /\ disk.exists /\ ~disk.isContainer /\ ~disk.mode0000

\* C11: a Save on a version-1 Stash whose value does not marshal returns
\* the marshalling error at once; no entry of the Stash changes, neither
\* the one of the key nor any other, and with or without autoFlush no
\* Flush is entered and the file stays as it is.
C11_UnserializableValue ==
  [][\A t \in Threads :
       (Begins(t, {"Save"}) /\ stash.version = version1
          /\ Marshal(th'[t].val).err # NoError)
       => /\ th'[t].pc = "idle"
          /\ th'[t].err = OtherError("error marshalling value")
          /\ stash' = stash
          /\ disk' = disk]_vars

\* with autoFlush a Save of an Unmarshallable has failed on a key that
\* holds a value, and the file holds what the Stash holds
C11_Witness ==
  \E t \in Threads :
    /\ Usable /\ stash.autoFlush
    /\ th[t].pc = "idle" /\ th[t].op = "Save"
    /\ th[t].val.typ = "Unmarshallable"
    /\ th[t].err = OtherError("error marshalling value")
    /\ stash.data[th[t].key] # NoEntry
    /\ disk.exists /\ disk.Data = stash.data

\* C12: NewStash on a path without a file leaves a Stash of version 1 with
\* no entries. With autoFlush it returns nil exactly when the file has
\* been written, the file then reopens without error as a version-1 store
\* with no keys, and otherwise it returns the error of the write. Without
\* autoFlush it returns nil and there is still no file.
C12_CreateOnAbsentPath ==
  [][\A t \in Threads :
       (th[t].pc = "NewStash_Stat" /\ th'[t].pc = "idle" /\ ~disk.exists)
       => /\ stash'.version = version1
          /\ stash'.hasData
          /\ KeysOf(stash'.data) = {}
          /\ stash'.autoFlush = stash.autoFlush
          /\ IF stash.autoFlush
               THEN /\ ret'.err \in {NoError, OtherError("ioutil.WriteFile")}
                    /\ (ret'.err = NoError) <=> (disk'.exists /\ disk'.isContainer)
                    /\ ret'.err = NoError
                         => /\ Reopened(disk').err = NoError
                            /\ Reopened(disk').stash.version = version1
                            /\ KeysOf(Reopened(disk').stash.data) = {}
               ELSE /\ ret'.err = NoError
                    /\ disk' = disk]_vars

\* NewStash with autoFlush has just returned nil on a path that had no
\* file, and the file is there, an empty version-1 store
C12_Witness ==
  /\ Usable /\ stash.autoFlush
  /\ \A t \in Threads : th[t] = IdleThread
  /\ stash.version = version1 /\ KeysOf(stash.data) = {}
  /\ disk.exists /\ disk.isContainer /\ disk.Version = version1
  /\ KeysOf(disk.Data) = {}

\* C13 as stated: when the WriteFile of the Flush that a Save on a Stash
\* with autoFlush goes into fails, nothing of the Stash is taken back, the
\* Save returns that error, the entry of the key is the serialization of
\* the value, and a Read of the key on the Stash yields exactly the value.
C13_AutoPersistFailureExact ==
  [][\A t \in Threads :
       /\ (th[t].op = "Save" /\ th[t].pc = "Flush_WriteFile" /\ th'[t].err # NoError)
          => stash' = stash
       /\ (Returns(t, {"Save"}) /\ th[t].pc = "Flush_Unlock" /\ th[t].err # NoError)
          => /\ th'[t].err = th[t].err
             /\ th'[t].err = OtherError("ioutil.WriteFile")
             /\ stash' = stash
             /\ stash'.data[th[t].key] = Marshal(th[t].val).bytes
             /\ \A rev \in Revisions :
                  ReadRev(rev, stash'.data, th[t].key, ZeroOf(th[t].val.typ)) =
                    [err |-> NoError, out |-> th[t].val]]_vars

\* C13 as amended: the same, the Read yielding the value with its
\* unexported fields zero.
C13_AutoPersistFailure ==
  [][\A t \in Threads :
       /\ (th[t].op = "Save" /\ th[t].pc = "Flush_WriteFile" /\ th'[t].err # NoError)
          => stash' = stash
       /\ (Returns(t, {"Save"}) /\ th[t].pc = "Flush_Unlock" /\ th[t].err # NoError)
          => /\ th'[t].err = th[t].err
             /\ th'[t].err = OtherError("ioutil.WriteFile")
             /\ stash' = stash
             /\ stash'.data[th[t].key] = Marshal(th[t].val).bytes
             /\ \A rev \in Revisions :
                  ReadRev(rev, stash'.data, th[t].key, ZeroOf(th[t].val.typ)) =
                    [err |-> NoError, out |-> Exported(th[t].val)]]_vars

\* with autoFlush a Save has returned the error of the write, the Stash
\* holds the value and the file, written before, does not
C13_Witness ==
  \E t \in Threads :
    /\ Usable /\ stash.autoFlush
    /\ th[t].pc = "idle" /\ th[t].op = "Save"
    /\ th[t].err = OtherError("ioutil.WriteFile")
    /\ stash.data[th[t].key] = Marshal(th[t].val).bytes
    /\ disk.exists /\ disk.isContainer
    /\ disk.Data[th[t].key] # stash.data[th[t].key]

\* C14 as stated: no step of a Save changes the entry of a key other than
\* its own; when a Save returns nil the entry of its key is the
\* serialization of its value, whatever the key held before, and a Read
\* of the key yields exactly the value.
C14_SaveOwnKeyExact ==
  [][\A t \in Threads :
       /\ (th'[t] # th[t] /\ th'[t].op = "Save")
          => \A k \in Keys \ {th'[t].key} : stash'.data[k] = stash.data[k]
       /\ (Returns(t, {"Save"}) /\ th'[t].err = NoError)
          => /\ stash'.data[th[t].key] = Marshal(th[t].val).bytes
             /\ \A rev \in Revisions :
                  ReadRev(rev, stash'.data, th[t].key, ZeroOf(th[t].val.typ)) =
                    [err |-> NoError, out |-> th[t].val]]_vars

\* C14 as amended: the same, the Read yielding the value with its
\* unexported fields zero.
C14_SaveOwnKey ==
  [][\A t \in Threads :
       /\ (th'[t] # th[t] /\ th'[t].op = "Save")
          => \A k \in Keys \ {th'[t].key} : stash'.data[k] = stash.data[k]
       /\ (Returns(t, {"Save"}) /\ th'[t].err = NoError)
          => /\ stash'.data[th[t].key] = Marshal(th[t].val).bytes
             /\ \A rev \in Revisions :
                  ReadRev(rev, stash'.data, th[t].key, ZeroOf(th[t].val.typ)) =
                    [err |-> NoError, out |-> Exported(th[t].val)]]_vars

\* a Save of a struct with an unexported field has returned nil, its
\* entry is in the Stash, and the other key holds a value of another shape
C14_Witness ==
  \E t \in Threads :
    /\ Usable
    /\ th[t].pc = "idle" /\ th[t].op = "Save" /\ th[t].err = NoError
    /\ th[t].val.unexp # ""
    /\ stash.data[th[t].key] = Marshal(th[t].val).bytes
    /\ \E k \in Keys \ {th[t].key} :
         stash.data[k] # NoEntry /\ stash.data[k].shape # stash.data[th[t].key].shape

\* C15: Flush has no version switch: called on a Stash whose version is
\* not version1 it goes on to the lock, it returns nil or the error of
\* the write, and when the write succeeds the file is a container with
\* that version and the entries the Stash holds.
C15_FlushNotGated ==
  [][\A t \in Threads :
       /\ (Begins(t, {"Flush"}) /\ stash.version # version1)
          => th'[t].pc = "Flush_Lock" /\ th'[t].err = NoError
       /\ (th[t].op = "Flush" /\ th[t].pc = "Flush_WriteFile"
             /\ th'[t].pc = "Flush_Unlock" /\ stash.version # version1)
          => /\ th'[t].err \in {NoError, OtherError("ioutil.WriteFile")}
             /\ th'[t].err = NoError
                  => /\ disk'.exists /\ disk'.isContainer /\ disk'.isV1Data
                     /\ disk'.Version = stash.version
                     /\ disk'.Data = stash.data
       /\ (Returns(t, {"Flush"}) /\ stash.version # version1)
          => th'[t].err = th[t].err]_vars

\* a Flush has returned nil on a Stash of version 42 that holds an entry,
\* and the file is a version-42 container holding it
C15_Witness ==
  \E t \in Threads :
    /\ Usable /\ stash.version = BadVersion
    /\ th[t].pc = "idle" /\ th[t].op = "Flush" /\ th[t].err = NoError
    /\ KeysOf(stash.data) # {}
    /\ disk.exists /\ disk.isContainer /\ disk.Version = BadVersion
    /\ disk.Data = stash.data

\* C16: no step of a Read or of a Flush call, whatever it returns, changes
\* the Stash (its version, its autoFlush, its entries) or which Stash the
\* callers hold; no step of a Read changes the file; and what a Flush
\* writes is a function of the Stash alone, so that two Flush calls with
\* no change of the Stash between them leave the same file.
C16_OnlySaveMutates ==
  [][\A t \in Threads :
       /\ (th'[t] # th[t] /\ th'[t].op \in Revisions \cup {"Flush"})
          => stash' = stash /\ ret' = ret
       /\ (th'[t] # th[t] /\ th'[t].op \in Revisions) => disk' = disk
       /\ (th[t].op = "Flush" /\ th[t].pc = "Flush_WriteFile"
             /\ th'[t].pc = "Flush_Unlock" /\ th'[t].err = NoError)
          => disk' = FileWith(disk, container(stash.version, stash.data))]_vars

\* a Read has returned an error on a key that holds a value (the value
\* does not decode into the variable), the entry is still there and the
\* file holds what the Stash holds
C16_Witness ==
  \E t \in Threads :
    /\ Usable
    /\ th[t].pc = "idle" /\ th[t].op \in Revisions /\ th[t].err # NoError
    /\ stash.data[th[t].key] # NoEntry
    /\ disk.exists /\ disk.Data = stash.data

\* goroutine t is between a Lock of the mutex and the Unlock that follows
InLock(t) ==
  th[t].pc \in {"Save_assign", "Save_Unlock", "Flush_Marshal", "Flush_WriteFile",
                "Flush_Unlock", "Read_lookup", "Read_Unlock"}

\* C17: at most one goroutine is between a Lock and its Unlock (the map
\* assignment of Save, the lookup and decoding of Read, the marshalling
\* and the write of Flush), and it is the one the mutex is locked by;
\* while a Flush is between its marshalling and its write the entries of
\* the Stash are the ones it marshalled, so that the bytes written are the
\* entries as they were at one moment.
C17_MutualExclusion ==
  /\ \A t, u \in Threads : (InLock(t) /\ InLock(u)) => t = u
  /\ \A t \in Threads : InLock(t) <=> mutex = t
  /\ \A t \in Threads : th[t].pc = "Flush_WriteFile" => th[t].jsonData = stash.data

\* a Flush holds the mutex between its marshalling and its write, with an
\* entry marshalled, while a Save and a Read wait for the mutex
C17_Witness ==
  \E t, u, w \in Threads :
    /\ th[t].pc = "Flush_WriteFile" /\ mutex = t
    /\ KeysOf(th[t].jsonData) # {}
    /\ th[u].pc = "Save_Lock"
    /\ th[w].pc = "Read_Lock"

\* C18: a goroutine that is not between a Lock and its Unlock does not
\* hold the mutex, in particular not when it has returned, with or
\* without an error, and not when a Save with autoFlush goes into Flush;
\* and under fair scheduling every call that has begun returns and the
\* mutex, once locked, is unlocked again.
C18_LockReleased ==
  /\ [](\A t \in Threads : ~InLock(t) => mutex # t)
  /\ \A t \in Threads : (th[t].pc # "idle") ~> (th[t].pc = "idle")
  /\ (mutex # 0) ~> (mutex = 0)

\* a Save with autoFlush has gone into its Flush and holds the mutex
\* there, while the other goroutines wait in Lock
C18_Witness ==
  \E t \in Threads :
    /\ stash.autoFlush
    /\ th[t].op = "Save" /\ th[t].pc = "Flush_WriteFile" /\ mutex = t
    /\ \A u \in Threads \ {t} : th[u].pc \in {"Save_Lock", "Flush_Lock", "Read_Lock"}

Calls == {"Save", "Flush"} \cup Revisions

\* C20: a call that fails leaves the Stash as a later call needs it. A
\* call that returns an error at once (the version switch, the
\* marshalling of Save) changes nothing at all. No step of a Read or of a
\* Flush call changes the Stash, and none but the write of a Flush changes
\* the file. A write that fails leaves a file on
\* which a later write of the Stash's entries fares as it would have on
\* the file before. And every call that returns an error, a Save whose
\* own Flush failed among them, returns with the mutex unlocked, the
\* Stash unchanged by the return and still the one the callers hold.
C20_UsableAfterFailure ==
  [][\A t \in Threads :
       /\ (Begins(t, Calls) /\ th'[t].pc = "idle")
          => /\ th'[t].err # NoError
             /\ stash' = stash /\ disk' = disk /\ mutex' = mutex /\ ret' = ret
       /\ (th'[t] # th[t] /\ th'[t].op \in Revisions \cup {"Flush"})
          => /\ stash' = stash /\ ret' = ret
             /\ th[t].pc # "Flush_WriteFile" => disk' = disk
       /\ (th[t].pc = "Flush_WriteFile" /\ th'[t].pc = "Flush_Unlock"
             /\ th'[t].err # NoError)
          => /\ stash' = stash /\ ret' = ret /\ mutex' = mutex
             /\ \A outcome \in WriteOutcomes :
                  LET bytes == container(stash.version, stash.data)
                      was == WriteFile(disk, bytes, outcome)
                      now == WriteFile(disk', bytes, outcome)
                  IN /\ now.err = was.err
                     /\ now.err = NoError => now.file = was.file
       /\ (Returns(t, Calls) /\ th'[t].err # NoError)
          => /\ mutex' = 0
             /\ stash' = stash /\ disk' = disk
             /\ ret' = ret /\ Usable']_vars

\* a Flush has returned the error of a write cut short: the file is no
\* container any more, the Stash holds its entries, and the mutex is free
C20_Witness ==
  \E t \in Threads :
    /\ Usable
    /\ th[t].pc = "idle" /\ th[t].op = "Flush"
    /\ th[t].err = OtherError("ioutil.WriteFile")
    /\ KeysOf(stash.data) # {}
    /\ disk.exists /\ ~disk.isContainer
    /\ mutex = 0

\* no WriteFile has failed: no goroutine holds the error of one
NoWriteFailed == \A t \in Threads : th[t].err # OtherError("ioutil.WriteFile")

\* goroutine t is in a Save, or has returned from one, that has made its
\* assignment to the map
Assigned(t) ==
  th[t].op = "Save" /\ th[t].err = NoError /\ th[t].pc \notin {"Save_Lock", "Save_assign"}

\* C21: on a Stash with autoFlush, as long as no WriteFile has failed,
\* whatever the interleaving of the goroutines: when a Save has returned
\* nil the file holds its key, with its value or with the value of
\* another Save to that key that has made its assignment; when the Stash
\* holds the value of the returned Save and the other Saves to the key
\* that have made their assignment passed other values (so that theirs
\* came before), the file holds the value of the returned Save, no Flush
\* begun earlier having put an older entry back; and when no goroutine is
\* inside a call the file holds exactly the entries of the Stash.
C21_QuiescentConsistency ==
  (Usable /\ stash.autoFlush /\ NoWriteFailed)
  => /\ \A t \in Threads :
          (Assigned(t) /\ th[t].pc = "idle")
          => /\ disk.exists /\ disk.isContainer /\ disk.isV1Data
             /\ disk.Data[th[t].key] \in
                  {Marshal(th[u].val).bytes :
                     u \in {u \in Threads : Assigned(u) /\ th[u].key = th[t].key}}
             /\ (/\ stash.data[th[t].key] = Marshal(th[t].val).bytes
                 /\ \A u \in Threads \ {t} :
                      (Assigned(u) /\ th[u].key = th[t].key)
                      => Marshal(th[u].val).bytes # Marshal(th[t].val).bytes)
                => disk.Data[th[t].key] = Marshal(th[t].val).bytes
     /\ Quiescent
          => /\ disk.exists /\ disk.isContainer /\ disk.isV1Data
             /\ disk.Version = stash.version
             /\ disk.Data = stash.data

\* with autoFlush every goroutine has saved under the same key, not all
\* the same value, all have returned nil, and the file holds what the
\* Stash holds
C21_Witness ==
  /\ Usable /\ stash.autoFlush /\ NoWriteFailed /\ Quiescent
  /\ \A t \in Threads : Assigned(t)
  /\ \A t, u \in Threads : th[t].key = th[u].key
  /\ \E t, u \in Threads : th[t].val # th[u].val
  /\ disk.Data = stash.data

\* C22: no step of a NewStash on a path that has a file changes the file,
\* whatever autoFlush is and whatever NewStash returns; when it returns
\* nil the Stash has the Version of the file, which is version1, and its
\* entries are exactly the ones of the file's Data.
C22_OpenReadOnly ==
  [][\A t \in Threads :
       /\ (Begins(t, {"NewStash"}) /\ disk.exists)
          => disk' = disk
       /\ (th[t].pc = "NewStash_Stat" /\ th'[t].pc = "idle" /\ disk.exists)
          => /\ disk' = disk
             /\ stash'.autoFlush = stash.autoFlush
             /\ ret'.err = NoError
                  => /\ stash'.hasData
                     /\ stash'.version = disk.Version
                     /\ stash'.version = version1
                     /\ stash'.data = disk.Data]_vars

\* NewStash with autoFlush has just returned nil on a file that holds an
\* entry under either key, and the Stash holds both
C22_Witness ==
  /\ Usable /\ stash.autoFlush
  /\ \A t \in Threads : th[t] = IdleThread
  /\ disk.exists /\ disk.isContainer /\ disk.Version = version1
  /\ KeysOf(disk.Data) = Keys
  /\ stash.data = disk.Data

====
